---- MODULE Spec2Model ----
(***************************************************************************)
(* Collab member operations and folder reads of src/biz/collab/ops.rs.     *)
(*                                                                         *)
(* The member store (a relational table reached through transactions) and  *)
(* the access-control policy store are the shared state.  Every async      *)
(* function of ops.rs is a sequence of steps, one per external call it     *)
(* awaits; each external call may succeed or fail.                         *)
(***************************************************************************)
EXTENDS Integers, Sequences, FiniteSets, TLC

\* ------------------------------------------------------------------------
\* Input domains
\* ------------------------------------------------------------------------
\* depth arguments tried: 0..MaxDepth
MaxDepth == 12
\* depths of the stored folder tree: 0..MaxTreeDepth
MaxTreeDepth == 3

Procs == {1, 2}
\* the caller of the sequential specification
Client == CHOOSE p \in Procs : \A q \in Procs : p <= q

UIDs == {1}
\* object ids the mutating calls are made with ("" fails validation)
MutOIDs == {"", "o1"}
\* object ids the read calls are made with
QueryOIDs == {"", "o1", "o2"}
Levels == {"Read", "Write"}
NoLevel == "NoLevel"

MemberOps == {"create", "upsert", "get", "delete", "list"}

Member(u, o, l) == [uid |-> u, oid |-> o, level |-> l]

\* A membership for another object that exists before any call is made.
SeedMembers == {Member(1, "o2", "Read")}

Calls ==
  [op : {"create", "upsert"}, uid : UIDs, oid : MutOIDs, level : Levels]
    \cup [op : {"delete"}, uid : UIDs, oid : MutOIDs, level : {NoLevel}]
    \cup [op : {"get"}, uid : UIDs, oid : QueryOIDs, level : {NoLevel}]
    \cup [op : {"list"}, uid : UIDs, oid : QueryOIDs, level : {NoLevel}]

NoCall == [op |-> "none", uid |-> 0, oid |-> "", level |-> NoLevel]
NoTx == [status |-> "none", writes |-> <<>>]
NoRet == {}

VARIABLES
  members,   \* committed rows of the member table: a set of Member records
  policy,    \* policy store: the set of Member records it grants
  pc,        \* pc[p]: the step process p is at
  call,      \* call[p]: the operation and parameters of p's current call
  tx,        \* tx[p]: p's transaction: status and buffered writes
  result,    \* result[p]: what p's call returned
  ret,       \* ret[p]: the records a get or list returned
  log,       \* log[p]: the external calls p's current call has issued
  last,      \* summary of the call completed before the current one
  before,    \* summary of the call completed before `last`
  spc,       \* the step get_user_workspace_structure is at
  sdepth,    \* its depth parameter
  sfolder,   \* the depth of the folder it fetched and decoded (-1: none)
  sresult,   \* what it returned
  sview,     \* the depth of the FolderView it returned (-1: none)
  slog,      \* the external calls it has issued
  ppc,       \* the step get_published_view is at
  pns,       \* its publish_namespace parameter
  pws,       \* the workspace id the namespace resolved to ("none": not yet)
  pfolder,   \* the folder it decoded ("none": not yet)
  pids,      \* the published view ids it selected
  presult,   \* what it returned
  pview,     \* the view ids of the PublishedView it returned
  plog       \* the external calls it has issued

vars == <<members, policy, pc, call, tx, result, ret, log, last, before,
          spc, sdepth, sfolder, sresult, sview, slog,
          ppc, pns, pws, pfolder, pids, presult, pview, plog>>
pubVars == <<ppc, pns, pws, pfolder, pids, presult, pview, plog>>
memberVars == <<members, policy, pc, call, tx, result, ret, log>>
histVars == <<last, before>>
structVars == <<spc, sdepth, sfolder, sresult, sview, slog>>

\* ------------------------------------------------------------------------
\* Stores
\* ------------------------------------------------------------------------
SameKey(r, u, o) == r.uid = u /\ r.oid = o

Rows(m, u, o) == {r \in m : SameKey(r, u, o)}

\* INSERT ... ON CONFLICT (uid, oid) DO UPDATE, and DELETE, on a set of rows
ApplyWrite(m, w) ==
  IF w.kind = "put"
    THEN (m \ Rows(m, w.uid, w.oid)) \cup {Member(w.uid, w.oid, w.level)}
    ELSE m \ Rows(m, w.uid, w.oid)

RECURSIVE ApplyWrites(_, _)
ApplyWrites(m, ws) ==
  IF ws = <<>> THEN m ELSE ApplyWrites(ApplyWrite(m, Head(ws)), Tail(ws))

\* what a statement inside p's transaction sees: committed rows and its own writes
TxView(p) == ApplyWrites(members, tx[p].writes)

\* another open transaction has written the row and holds its lock
RowLocked(p, u, o) ==
  \E q \in Procs \ {p} :
    /\ tx[q].status = "open"
    /\ \E i \in 1..Len(tx[q].writes) : SameKey(tx[q].writes[i], u, o)

is_collab_member_exists(p, u, o) == Rows(TxView(p), u, o) # {}

select_collab_member(u, o) == Rows(members, u, o)

select_collab_members(o) == {r \in members : r.oid = o}

update_access_level_policy(pol, u, o, l) ==
  (pol \ Rows(pol, u, o)) \cup {Member(u, o, l)}

remove_access_level(pol, u, o) == pol \ Rows(pol, u, o)

\* params.validate(): identifiers are not empty
Valid(c) == c.oid # ""

\* ------------------------------------------------------------------------
\* Steps
\* ------------------------------------------------------------------------
Logged(p, name, ok) == log' = [log EXCEPT ![p] = Append(@, <<name, ok>>)]

\* Return with the open transaction kept alive instead of dropped
Return_Leaked(p, res, rv) ==
  /\ pc' = [pc EXCEPT ![p] = "done"]
  /\ result' = [result EXCEPT ![p] = res]
  /\ ret' = [ret EXCEPT ![p] = rv]
  /\ UNCHANGED tx

\* the call returns res; a transaction still open is dropped, which rolls it back
Return(p, res, rv) ==
  /\ pc' = [pc EXCEPT ![p] = "done"]
  /\ result' = [result EXCEPT ![p] = res]
  /\ ret' = [ret EXCEPT ![p] = rv]
  /\ tx' = [tx EXCEPT ![p] =
              IF @.status = "open" THEN [status |-> "rolledback", writes |-> <<>>] ELSE @]

Goto(p, next) ==
  /\ pc' = [pc EXCEPT ![p] = next]
  /\ UNCHANGED <<result, ret>>

Start(p) ==
  /\ pc[p] \in {"idle", "done"}
  /\ \E c \in Calls : call' = [call EXCEPT ![p] = c]
  /\ pc' = [pc EXCEPT ![p] = "validate"]
  /\ tx' = [tx EXCEPT ![p] = NoTx]
  /\ result' = [result EXCEPT ![p] = "none"]
  /\ ret' = [ret EXCEPT ![p] = NoRet]
  /\ log' = [log EXCEPT ![p] = <<>>]
  /\ UNCHANGED <<members, policy>>

FirstStep(op) ==
  CASE op = "create" -> "create_begin"
    [] op = "upsert" -> "upsert_begin"
    [] op = "delete" -> "delete_begin"
    [] op = "get" -> "get_select"
    [] op = "list" -> "list_select"

\* Validate with the validation result ignored
Validate_Skipped(p) ==
  /\ pc[p] = "validate"
  /\ Goto(p, FirstStep(call[p].op)) /\ UNCHANGED tx
  /\ UNCHANGED <<members, policy, call, log>>

Validate(p) ==
  /\ pc[p] = "validate"
  /\ IF Valid(call[p])
       THEN Goto(p, FirstStep(call[p].op)) /\ UNCHANGED tx
       ELSE Return(p, "InvalidInput", NoRet)
  /\ UNCHANGED <<members, policy, call, log>>

\* pg_pool.begin()
Begin(p, at, next) ==
  /\ pc[p] = at
  /\ \E ok \in BOOLEAN :
       /\ Logged(p, "begin", ok)
       /\ IF ok
            THEN /\ Goto(p, next)
                 /\ tx' = [tx EXCEPT ![p] = [status |-> "open", writes |-> <<>>]]
            ELSE Return(p, "DbError", NoRet)
  /\ UNCHANGED <<members, policy, call>>

\* transaction.commit()
Commit(p, at) ==
  /\ pc[p] = at
  /\ \E ok \in BOOLEAN :
       /\ Logged(p, "commit", ok)
       /\ pc' = [pc EXCEPT ![p] = "done"]
       /\ ret' = [ret EXCEPT ![p] = NoRet]
       /\ IF ok
            THEN /\ members' = ApplyWrites(members, tx[p].writes)
                 /\ tx' = [tx EXCEPT ![p] = [status |-> "committed", writes |-> <<>>]]
                 /\ result' = [result EXCEPT ![p] = "Ok"]
            ELSE /\ members' = members
                 /\ tx' = [tx EXCEPT ![p] = [status |-> "rolledback", writes |-> <<>>]]
                 /\ result' = [result EXCEPT ![p] = "CommitError"]
  /\ UNCHANGED <<policy, call>>

\* database::collab::insert_collab_member(uid, object_id, access_level, &mut transaction)
Insert(p, at, next) ==
  /\ pc[p] = at
  /\ ~RowLocked(p, call[p].uid, call[p].oid)
  /\ \E ok \in BOOLEAN :
       /\ Logged(p, "insert", ok)
       /\ IF ok
            THEN /\ Goto(p, next)
                 /\ tx' = [tx EXCEPT ![p].writes =
                             Append(@, [kind |-> "put", uid |-> call[p].uid,
                                        oid |-> call[p].oid, level |-> call[p].level])]
            ELSE Return(p, "DbError", NoRet)
  /\ UNCHANGED <<members, policy, call>>

\* collab_access_control.update_access_level_policy(uid, object_id, access_level)
PolicyUpdate(p, at, next) ==
  /\ pc[p] = at
  /\ \E ok \in BOOLEAN :
       /\ Logged(p, "policy_update", ok)
       /\ IF ok
            THEN /\ Goto(p, next)
                 /\ UNCHANGED tx
                 /\ policy' = update_access_level_policy(
                                policy, call[p].uid, call[p].oid, call[p].level)
            ELSE /\ Return(p, "PolicyError", NoRet)
                 /\ UNCHANGED policy
  /\ UNCHANGED <<members, call>>

\* ---- create_collab_member ----
\* CreateBegin with the transaction not begun before the existence check
CreateBegin_Deferred(p) ==
  /\ pc[p] = "create_begin"
  /\ Goto(p, "create_exists")
  /\ UNCHANGED <<members, policy, call, log, tx>>

CreateBegin(p) == Begin(p, "create_begin", "create_exists")

\* CreateExists with the answer of the existence check ignored
CreateExists_Ignored(p) ==
  /\ pc[p] = "create_exists"
  /\ \E ok \in BOOLEAN :
       /\ Logged(p, "exists", ok)
       /\ IF ~ok
            THEN Return(p, "DbError", NoRet)
            ELSE Goto(p, "create_insert") /\ UNCHANGED tx
  /\ UNCHANGED <<members, policy, call>>

CreateExists(p) ==
  /\ pc[p] = "create_exists"
  /\ \E ok \in BOOLEAN :
       /\ Logged(p, "exists", ok)
       /\ IF ~ok
            THEN Return(p, "DbError", NoRet)
            ELSE IF is_collab_member_exists(p, call[p].uid, call[p].oid)
                   THEN Return(p, "RecordAlreadyExists", NoRet)
                   ELSE Goto(p, "create_insert") /\ UNCHANGED tx
  /\ UNCHANGED <<members, policy, call>>

\* CreateInsert with the statement run on the pool, outside the transaction
CreateInsert_Autocommit(p) ==
  /\ pc[p] = "create_insert"
  /\ ~RowLocked(p, call[p].uid, call[p].oid)
  /\ \E ok \in BOOLEAN :
       /\ Logged(p, "insert", ok)
       /\ IF ok
            THEN /\ Goto(p, "create_policy")
                 /\ UNCHANGED tx
                 /\ members' = ApplyWrite(members,
                                 [kind |-> "put", uid |-> call[p].uid,
                                  oid |-> call[p].oid, level |-> call[p].level])
            ELSE Return(p, "DbError", NoRet) /\ UNCHANGED members
  /\ UNCHANGED <<policy, call>>

\* CreateInsert with the error of a failed insert swallowed
CreateInsert_Swallowed(p) ==
  /\ pc[p] = "create_insert"
  /\ ~RowLocked(p, call[p].uid, call[p].oid)
  /\ \E ok \in BOOLEAN :
       /\ Logged(p, "insert", ok)
       /\ Goto(p, "create_policy")
       /\ tx' = [tx EXCEPT ![p].writes =
                   IF ok
                     THEN Append(@, [kind |-> "put", uid |-> call[p].uid,
                                     oid |-> call[p].oid, level |-> call[p].level])
                     ELSE @]
  /\ UNCHANGED <<members, policy, call>>

CreateInsert(p) == Insert(p, "create_insert", "create_policy")

CreatePolicy(p) == PolicyUpdate(p, "create_policy", "create_commit")

\* CreateCommit with the commit left out: Ok is returned and the transaction dropped
CreateCommit_Missing(p) ==
  /\ pc[p] = "create_commit"
  /\ Return(p, "Ok", NoRet)
  /\ UNCHANGED <<members, policy, call, log>>

\* CreateCommit with the error of a failed commit swallowed
CreateCommit_Swallowed(p) ==
  /\ pc[p] = "create_commit"
  /\ \E ok \in BOOLEAN :
       /\ Logged(p, "commit", ok)
       /\ pc' = [pc EXCEPT ![p] = "done"]
       /\ ret' = [ret EXCEPT ![p] = NoRet]
       /\ result' = [result EXCEPT ![p] = "Ok"]
       /\ IF ok
            THEN /\ members' = ApplyWrites(members, tx[p].writes)
                 /\ tx' = [tx EXCEPT ![p] = [status |-> "committed", writes |-> <<>>]]
            ELSE /\ members' = members
                 /\ tx' = [tx EXCEPT ![p] = [status |-> "rolledback", writes |-> <<>>]]
  /\ UNCHANGED <<policy, call>>

CreateCommit(p) == Commit(p, "create_commit")

\* ---- upsert_collab_member ----
\* UpsertBegin followed by the insert, the policy update left out
UpsertBegin_InsertFirst(p) == Begin(p, "upsert_begin", "upsert_insert")

\* UpsertBegin followed by the existence check of create_collab_member
UpsertBegin_Checked(p) == Begin(p, "upsert_begin", "create_exists")

UpsertBegin(p) == Begin(p, "upsert_begin", "upsert_policy")

UpsertPolicy(p) == PolicyUpdate(p, "upsert_policy", "upsert_insert")

\* UpsertInsert with a failed insert tried again
UpsertInsert_Retried(p) ==
  /\ pc[p] = "upsert_insert"
  /\ ~RowLocked(p, call[p].uid, call[p].oid)
  /\ \E ok \in BOOLEAN :
       /\ Logged(p, "insert", ok)
       /\ IF ok
            THEN /\ Goto(p, "upsert_commit")
                 /\ tx' = [tx EXCEPT ![p].writes =
                             Append(@, [kind |-> "put", uid |-> call[p].uid,
                                        oid |-> call[p].oid, level |-> call[p].level])]
            ELSE IF Len(log[p]) < 3
                   THEN Goto(p, "upsert_insert") /\ UNCHANGED tx
                   ELSE Return(p, "DbError", NoRet)
  /\ UNCHANGED <<members, policy, call>>

UpsertInsert(p) == Insert(p, "upsert_insert", "upsert_commit")

\* UpsertCommit with the commit left out: Ok is returned and the transaction dropped
UpsertCommit_Missing(p) ==
  /\ pc[p] = "upsert_commit"
  /\ Return(p, "Ok", NoRet)
  /\ UNCHANGED <<members, policy, call, log>>

UpsertCommit(p) == Commit(p, "upsert_commit")

\* ---- get_collab_member ----
GetSelect(p) ==
  /\ pc[p] = "get_select"
  /\ \E ok \in BOOLEAN :
       /\ Logged(p, "select", ok)
       /\ UNCHANGED tx
       /\ pc' = [pc EXCEPT ![p] = "done"]
       /\ LET rows == select_collab_member(call[p].uid, call[p].oid) IN
            IF ~ok
              THEN /\ result' = [result EXCEPT ![p] = "DbError"]
                   /\ ret' = [ret EXCEPT ![p] = NoRet]
              ELSE IF rows = {}
                     THEN /\ result' = [result EXCEPT ![p] = "RecordNotFound"]
                          /\ ret' = [ret EXCEPT ![p] = NoRet]
                     ELSE /\ result' = [result EXCEPT ![p] = "Ok"]
                          /\ \E r \in rows : ret' = [ret EXCEPT ![p] = {r}]
  /\ UNCHANGED <<members, policy, call>>

\* ---- delete_collab_member ----
DeleteBegin(p) == Begin(p, "delete_begin", "delete_row")

DeleteRow(p) ==
  /\ pc[p] = "delete_row"
  /\ LET u == call[p].uid
         o == call[p].oid
         visible == Rows(TxView(p), u, o) # {}
     IN
       /\ ~(RowLocked(p, u, o) /\ Rows(members, u, o) # {})
       /\ \E ok \in BOOLEAN :
            /\ Logged(p, "delete", ok)
            /\ IF ok
                 THEN /\ Goto(p, "delete_policy")
                      /\ tx' = [tx EXCEPT ![p].writes =
                                  IF visible
                                    THEN Append(@, [kind |-> "del", uid |-> u,
                                                    oid |-> o, level |-> NoLevel])
                                    ELSE @]
                 ELSE Return(p, "DbError", NoRet)
  /\ UNCHANGED <<members, policy, call>>

\* DeletePolicy with the removal of the access level left out
DeletePolicy_Skipped(p) ==
  /\ pc[p] = "delete_policy"
  /\ Goto(p, "delete_commit")
  /\ UNCHANGED <<members, policy, call, log, tx>>

DeletePolicy(p) ==
  /\ pc[p] = "delete_policy"
  /\ \E ok \in BOOLEAN :
       /\ Logged(p, "policy_remove", ok)
       /\ IF ok
            THEN /\ Goto(p, "delete_commit")
                 /\ UNCHANGED tx
                 /\ policy' = remove_access_level(policy, call[p].uid, call[p].oid)
            ELSE /\ Return(p, "PolicyError", NoRet)
                 /\ UNCHANGED policy
  /\ UNCHANGED <<members, call>>

DeleteCommit(p) == Commit(p, "delete_commit")

\* ---- get_collab_member_list ----
\* ListSelect with the rows not restricted to the object id
ListSelect_Unfiltered(p) ==
  /\ pc[p] = "list_select"
  /\ \E ok \in BOOLEAN :
       /\ Logged(p, "select_list", ok)
       /\ UNCHANGED tx
       /\ pc' = [pc EXCEPT ![p] = "done"]
       /\ IF ok
            THEN /\ result' = [result EXCEPT ![p] = "Ok"]
                 /\ ret' = [ret EXCEPT ![p] = members]
            ELSE /\ result' = [result EXCEPT ![p] = "DbError"]
                 /\ ret' = [ret EXCEPT ![p] = NoRet]
  /\ UNCHANGED <<members, policy, call>>

ListSelect(p) ==
  /\ pc[p] = "list_select"
  /\ \E ok \in BOOLEAN :
       /\ Logged(p, "select_list", ok)
       /\ UNCHANGED tx
       /\ pc' = [pc EXCEPT ![p] = "done"]
       /\ IF ok
            THEN /\ result' = [result EXCEPT ![p] = "Ok"]
                 /\ ret' = [ret EXCEPT ![p] = select_collab_members(call[p].oid)]
            ELSE /\ result' = [result EXCEPT ![p] = "DbError"]
                 /\ ret' = [ret EXCEPT ![p] = NoRet]
  /\ UNCHANGED <<members, policy, call>>

\* ---- get_user_workspace_structure ----
depth_limit == 10

Min(a, b) == IF a < b THEN a ELSE b

\* collab_folder_to_folder_view(&folder, depth): the tree cut below `depth`
collab_folder_to_folder_view(folderDepth, depth) == Min(folderDepth, depth)

StructReturn(res, v) ==
  /\ spc' = "done"
  /\ sresult' = res
  /\ sview' = v

StructStart ==
  /\ spc \in {"idle", "done"}
  /\ \E d \in 0..MaxDepth : sdepth' = d
  /\ spc' = "check_depth"
  /\ sfolder' = -1
  /\ sresult' = "none"
  /\ sview' = -1
  /\ slog' = <<>>

\* StructCheckDepth with the depth check left out
StructCheckDepth_Missing ==
  /\ spc = "check_depth"
  /\ spc' = "fetch"
  /\ UNCHANGED <<sdepth, sfolder, slog, sresult, sview>>

StructCheckDepth ==
  /\ spc = "check_depth"
  /\ IF sdepth > depth_limit
       THEN StructReturn("InvalidRequest", -1)
       ELSE spc' = "fetch" /\ UNCHANGED <<sresult, sview>>
  /\ UNCHANGED <<sdepth, sfolder, slog>>

\* get_latest_collab_encoded: collab_storage.get_encode_collab(..)
StructFetch ==
  /\ spc = "fetch"
  /\ \E ok \in BOOLEAN :
       /\ slog' = Append(slog, <<"fetch", ok>>)
       /\ IF ok
            THEN spc' = "decode" /\ UNCHANGED <<sresult, sview>>
            ELSE StructReturn("FetchError", -1)
  /\ UNCHANGED <<sdepth, sfolder>>

\* Folder::from_collab_doc_state(..).map_err(Unhandled)
StructDecode ==
  /\ spc = "decode"
  /\ \E ok \in BOOLEAN :
       /\ slog' = Append(slog, <<"decode", ok>>)
       /\ IF ok
            THEN /\ spc' = "folder_view"
                 /\ \E t \in 0..MaxTreeDepth : sfolder' = t
                 /\ UNCHANGED <<sresult, sview>>
            ELSE /\ StructReturn("Unhandled", -1)
                 /\ UNCHANGED sfolder
  /\ UNCHANGED sdepth

StructView ==
  /\ spc = "folder_view"
  /\ slog' = Append(slog, <<"folder_view", sdepth>>)
  /\ StructReturn("Ok", collab_folder_to_folder_view(sfolder, sdepth))
  /\ UNCHANGED <<sdepth, sfolder>>

\* ---- get_published_view ----
\* publish namespaces callers ask for, and the workspace each is mapped to
Namespaces == {"ns1", "ns2", "unmapped"}

WorkspaceOf(ns) ==
  CASE ns = "ns1" -> "w1"
    [] ns = "ns2" -> "w2"
    [] OTHER -> "none"

\* the views of a folder, and the folders a workspace's document decodes to:
\*   "tree":  root -> [A, B -> [C]]
\*   "chain": root -> [A -> [B -> [C]]]
\*   "flat":  root -> [A, B, C]
ViewIds == {"root", "A", "B", "C"}
Folders == {"tree", "chain", "flat"}

ParentOf(f, v) ==
  CASE v = "root" -> "none"
    [] v = "A" -> "root"
    [] v = "B" -> IF f = "chain" THEN "A" ELSE "root"
    [] v = "C" -> IF f = "flat" THEN "root" ELSE "B"
    [] OTHER -> "none"

RECURSIVE Ancestors(_, _)
Ancestors(f, v) ==
  IF ParentOf(f, v) = "none"
    THEN {}
    ELSE {ParentOf(f, v)} \cup Ancestors(f, ParentOf(f, v))

\* collab_folder_to_published_outline(&folder, &publish_view_ids): the views
\* that are published, under the ancestors needed to reach them
collab_folder_to_published_outline(f, ids) ==
  {"root"} \cup UNION {{v} \cup Ancestors(f, v) : v \in ids \cap ViewIds}

PubReturn(res, v) ==
  /\ ppc' = "done"
  /\ presult' = res
  /\ pview' = v

PubStart ==
  /\ ppc \in {"idle", "done"}
  /\ \E ns \in Namespaces : pns' = ns
  /\ ppc' = "resolve"
  /\ pws' = "none"
  /\ pfolder' = "none"
  /\ pids' = {}
  /\ presult' = "none"
  /\ pview' = {}
  /\ plog' = <<>>

\* select_workspace_id_for_publish_namespace(pg_pool, &publish_namespace).await?
PubResolve ==
  /\ ppc = "resolve"
  /\ \E ok \in (IF WorkspaceOf(pns) = "none" THEN {FALSE} ELSE BOOLEAN) :
       /\ plog' = Append(plog, <<"resolve", ok>>)
       /\ IF ok
            THEN /\ ppc' = "fetch"
                 /\ pws' = WorkspaceOf(pns)
                 /\ UNCHANGED <<presult, pview>>
            ELSE /\ PubReturn("DbError", {})
                 /\ UNCHANGED pws
  /\ UNCHANGED <<pns, pfolder, pids>>

\* PubFetch with a failed fetch not returned
PubFetch_Swallowed ==
  /\ ppc = "fetch"
  /\ \E ok \in BOOLEAN :
       /\ plog' = Append(plog, <<"fetch", ok>>)
       /\ ppc' = "decode"
       /\ UNCHANGED <<presult, pview>>
  /\ UNCHANGED <<pns, pws, pfolder, pids>>

\* collab_storage.get_encode_collab(GetCollabOrigin::Server, ..).await?
PubFetch ==
  /\ ppc = "fetch"
  /\ \E ok \in BOOLEAN :
       /\ plog' = Append(plog, <<"fetch", ok>>)
       /\ IF ok
            THEN ppc' = "decode" /\ UNCHANGED <<presult, pview>>
            ELSE PubReturn("FetchError", {})
  /\ UNCHANGED <<pns, pws, pfolder, pids>>

\* Folder::from_collab_doc_state(..).map_err(Unhandled)?
PubDecode ==
  /\ ppc = "decode"
  /\ \E ok \in BOOLEAN :
       /\ plog' = Append(plog, <<"decode", ok>>)
       /\ IF ok
            THEN /\ ppc' = "select_ids"
                 /\ \E f \in Folders : pfolder' = f
                 /\ UNCHANGED <<presult, pview>>
            ELSE /\ PubReturn("Unhandled", {})
                 /\ UNCHANGED pfolder
  /\ UNCHANGED <<pns, pws, pids>>

\* select_published_view_ids_for_workspace(pg_pool, workspace_id).await?
PubSelectIds ==
  /\ ppc = "select_ids"
  /\ \E ok \in BOOLEAN :
       /\ plog' = Append(plog, <<"select_ids", ok>>)
       /\ IF ok
            THEN /\ ppc' = "outline"
                 /\ \E ids \in SUBSET (ViewIds \ {"root"}) : pids' = ids
                 /\ UNCHANGED <<presult, pview>>
            ELSE /\ PubReturn("DbError", {})
                 /\ UNCHANGED pids
  /\ UNCHANGED <<pns, pws, pfolder>>

\* collab_folder_to_published_outline(&folder, &publish_view_ids)?
PubOutline ==
  /\ ppc = "outline"
  /\ \E ok \in BOOLEAN :
       /\ plog' = Append(plog, <<"outline", ok>>)
       /\ IF ok
            THEN PubReturn("Ok", collab_folder_to_published_outline(pfolder, pids))
            ELSE PubReturn("OutlineError", {})
  /\ UNCHANGED <<pns, pws, pfolder, pids>>

\* ------------------------------------------------------------------------
\* Specifications
\* ------------------------------------------------------------------------
NoSummary == [call |-> NoCall, result |-> "none", ret |-> NoRet]

Summary(p) == [call |-> call[p], result |-> result[p], ret |-> ret[p]]

Init ==
  /\ members = SeedMembers
  /\ policy = SeedMembers
  /\ pc = [p \in Procs |-> "idle"]
  /\ call = [p \in Procs |-> NoCall]
  /\ tx = [p \in Procs |-> NoTx]
  /\ result = [p \in Procs |-> "none"]
  /\ ret = [p \in Procs |-> NoRet]
  /\ log = [p \in Procs |-> <<>>]
  /\ last = NoSummary
  /\ before = NoSummary
  /\ spc = "idle"
  /\ sdepth = 0
  /\ sfolder = -1
  /\ sresult = "none"
  /\ sview = -1
  /\ slog = <<>>
  /\ ppc = "idle"
  /\ pns = ""
  /\ pws = "none"
  /\ pfolder = "none"
  /\ pids = {}
  /\ presult = "none"
  /\ pview = {}
  /\ plog = <<>>

\* One step of a call already started by p.
Steps(p) ==
  \/ Validate(p) /\ UNCHANGED <<histVars, structVars, pubVars>>
  \/ CreateBegin(p) /\ UNCHANGED <<histVars, structVars, pubVars>>
  \/ CreateExists(p) /\ UNCHANGED <<histVars, structVars, pubVars>>
  \/ CreateInsert(p) /\ UNCHANGED <<histVars, structVars, pubVars>>
  \/ CreatePolicy(p) /\ UNCHANGED <<histVars, structVars, pubVars>>
  \/ CreateCommit(p) /\ UNCHANGED <<histVars, structVars, pubVars>>
  \/ UpsertBegin(p) /\ UNCHANGED <<histVars, structVars, pubVars>>
  \/ UpsertPolicy(p) /\ UNCHANGED <<histVars, structVars, pubVars>>
  \/ UpsertInsert(p) /\ UNCHANGED <<histVars, structVars, pubVars>>
  \/ UpsertCommit(p) /\ UNCHANGED <<histVars, structVars, pubVars>>
  \/ GetSelect(p) /\ UNCHANGED <<histVars, structVars, pubVars>>
  \/ DeleteBegin(p) /\ UNCHANGED <<histVars, structVars, pubVars>>
  \/ DeleteRow(p) /\ UNCHANGED <<histVars, structVars, pubVars>>
  \/ DeletePolicy(p) /\ UNCHANGED <<histVars, structVars, pubVars>>
  \/ DeleteCommit(p) /\ UNCHANGED <<histVars, structVars, pubVars>>
  \/ ListSelect(p) /\ UNCHANGED <<histVars, structVars, pubVars>>

\* Concurrent callers: the steps of the processes' calls interleave freely,
\* and every process makes one call after the other.
ConcStart == \E p \in Procs : Start(p) /\ UNCHANGED <<histVars, structVars, pubVars>>

Next ==
  \/ ConcStart
  \/ \E p \in Procs : Steps(p)

Spec == Init /\ [][Next]_vars

\* One caller making its calls one after the other; `last` and `before`
\* remember the two calls completed before the current one.
SeqStart ==
  /\ Start(Client)
  /\ IF pc[Client] = "done"
       THEN last' = Summary(Client) /\ before' = last
       ELSE UNCHANGED histVars
  /\ UNCHANGED <<structVars, pubVars>>

SeqNext ==
  \/ SeqStart
  \/ Steps(Client)

SeqSpec == Init /\ [][SeqNext]_vars

\* Two callers that make one call each, their steps interleaved in any order.
RaceStart == \E p \in Procs : pc[p] = "idle" /\ Start(p) /\ UNCHANGED <<histVars, structVars, pubVars>>

RaceNext ==
  \/ RaceStart
  \/ \E p \in Procs : Steps(p)

RaceSpec == Init /\ [][RaceNext]_vars

\* Calls of get_user_workspace_structure, one after the other.
StructNext ==
  \/ StructStart /\ UNCHANGED <<memberVars, histVars, pubVars>>
  \/ StructCheckDepth /\ UNCHANGED <<memberVars, histVars, pubVars>>
  \/ StructFetch /\ UNCHANGED <<memberVars, histVars, pubVars>>
  \/ StructDecode /\ UNCHANGED <<memberVars, histVars, pubVars>>
  \/ StructView /\ UNCHANGED <<memberVars, histVars, pubVars>>

StructSpec == Init /\ [][StructNext]_vars

\* Calls of get_published_view, one after the other.
PubNext ==
  \/ PubStart /\ UNCHANGED <<memberVars, histVars, structVars>>
  \/ PubResolve /\ UNCHANGED <<memberVars, histVars, structVars>>
  \/ PubFetch /\ UNCHANGED <<memberVars, histVars, structVars>>
  \/ PubDecode /\ UNCHANGED <<memberVars, histVars, structVars>>
  \/ PubSelectIds /\ UNCHANGED <<memberVars, histVars, structVars>>
  \/ PubOutline /\ UNCHANGED <<memberVars, histVars, structVars>>

PubSpec == Init /\ [][PubNext]_vars

\* ------------------------------------------------------------------------
\* Properties
\* ------------------------------------------------------------------------
Quiet(p) == pc[p] \in {"idle", "done"}

Done(p, op) == pc[p] = "done" /\ call[p].op = op

AllOk(l) == \A i \in 1..Len(l) : l[i][2]

Issued(l, name) == \E i \in 1..Len(l) : l[i][1] = name

SamePair(c, d) == c.uid = d.uid /\ c.oid = d.oid

Was(s, op, res) == s.call.op = op /\ s.result = res

\* C1: two create_collab_member calls for the same (uid, object_id), made by
\* two callers with no record beforehand and every external call succeeding,
\* never both return Ok: one returns Ok and the other RecordAlreadyExists.
C1_OneCreateWins ==
  \A p \in Procs : \A q \in Procs \ {p} :
    (/\ Done(p, "create") /\ Done(q, "create")
     /\ Valid(call[p]) /\ SamePair(call[p], call[q])
     /\ AllOk(log[p]) /\ AllOk(log[q]))
    => {result[p], result[q]} = {"Ok", "RecordAlreadyExists"}

\* C2: whenever no member operation is in progress, the policy store holds
\* an entry for a pair exactly when the member store holds a record for it,
\* with the same access level.
C2_StoresAgreeWhenQuiet ==
  (\A p \in Procs : Quiet(p))
    => \A u \in UIDs : \A o \in QueryOIDs : Rows(policy, u, o) = Rows(members, u, o)

\* C3: a step of a call changes the committed member rows only if it is the
\* step that returns Ok; and a call that returns an error with its
\* transaction open leaves it rolled back.
C3_ErrorRollsBack ==
  [][\A p \in Procs :
       (pc'[p] # pc[p] /\ ~(pc'[p] = "done" /\ result'[p] = "Ok"))
         => /\ members' = members
            /\ (pc'[p] = "done" /\ tx[p].status = "open")
                 => tx'[p] = [status |-> "rolledback", writes |-> <<>>]]_vars

C3_Witness ==
  \E p \in Procs :
    /\ Done(p, "create")
    /\ result[p] = "PolicyError"
    /\ log[p] = <<<<"begin", TRUE>>, <<"exists", TRUE>>, <<"insert", TRUE>>,
                  <<"policy_update", FALSE>>>>
    /\ tx[p].status = "rolledback"
    /\ Rows(members, call[p].uid, call[p].oid) = {}

\* C4: a create_collab_member made right after a successful create for the
\* same pair does not return Ok, returns RecordAlreadyExists when its calls
\* succeed, issues no insert, policy update or commit, and leaves the record
\* and the policy entry at the first call's level.
C4_SecondCreateRejected ==
  (/\ Done(Client, "create")
   /\ Was(last, "create", "Ok")
   /\ SamePair(last.call, call[Client]))
  => LET u == call[Client].uid
         o == call[Client].oid
         first == Member(u, o, last.call.level)
     IN /\ result[Client] # "Ok"
        /\ AllOk(log[Client]) => result[Client] = "RecordAlreadyExists"
        /\ ~Issued(log[Client], "insert")
        /\ ~Issued(log[Client], "policy_update")
        /\ ~Issued(log[Client], "commit")
        /\ Rows(members, u, o) = {first}
        /\ Rows(policy, u, o) = {first}

C4_Witness ==
  /\ Done(Client, "create")
  /\ Was(last, "create", "Ok")
  /\ SamePair(last.call, call[Client])
  /\ last.call.level = "Read"
  /\ call[Client].level = "Write"
  /\ result[Client] = "RecordAlreadyExists"
  /\ Rows(members, 1, "o1") = {Member(1, "o1", "Read")}

\* C5: a get_collab_member made right after a successful create for the same
\* pair, its select succeeding, returns the record with the uid, object_id
\* and access level the create was given.
C5_GetAfterCreate ==
  (/\ Done(Client, "get")
   /\ Was(last, "create", "Ok")
   /\ SamePair(last.call, call[Client])
   /\ AllOk(log[Client]))
  => /\ result[Client] = "Ok"
     /\ ret[Client] = {Member(last.call.uid, last.call.oid, last.call.level)}

C5_Witness ==
  /\ Done(Client, "get")
  /\ Was(last, "create", "Ok")
  /\ SamePair(last.call, call[Client])
  /\ last.call.level = "Write"
  /\ result[Client] = "Ok"
  /\ ret[Client] = {Member(1, "o1", "Write")}

\* C6: after a successful create with level L1 and then a successful upsert
\* with level L2 for the same pair, a get whose select succeeds returns level
\* L2, the policy entry is L2 and the pair has exactly one record.
C6_GetAfterUpsert ==
  (/\ Done(Client, "get")
   /\ Was(before, "create", "Ok")
   /\ Was(last, "upsert", "Ok")
   /\ SamePair(before.call, last.call)
   /\ SamePair(last.call, call[Client])
   /\ AllOk(log[Client]))
  => LET u == call[Client].uid
         o == call[Client].oid
     IN /\ result[Client] = "Ok"
        /\ ret[Client] = {Member(u, o, last.call.level)}
        /\ Rows(policy, u, o) = {Member(u, o, last.call.level)}
        /\ Cardinality(Rows(members, u, o)) = 1

C6_Witness ==
  /\ Done(Client, "get")
  /\ Was(before, "create", "Ok")
  /\ Was(last, "upsert", "Ok")
  /\ SamePair(before.call, last.call)
  /\ SamePair(last.call, call[Client])
  /\ before.call.level = "Read"
  /\ last.call.level = "Write"
  /\ ret[Client] = {Member(1, "o1", "Write")}

\* C7: right after a delete_collab_member that returned Ok, the pair has
\* neither a membership record nor a policy entry.
C7_DeleteLeavesNothing ==
  (Done(Client, "delete") /\ result[Client] = "Ok")
  => /\ Rows(members, call[Client].uid, call[Client].oid) = {}
     /\ Rows(policy, call[Client].uid, call[Client].oid) = {}

C7_Witness ==
  /\ Done(Client, "delete")
  /\ result[Client] = "Ok"
  /\ Was(last, "create", "Ok")
  /\ SamePair(last.call, call[Client])
  /\ Rows(policy, call[Client].uid, call[Client].oid) = {}

\* C8: a call whose parameters fail validation is never at a step that does
\* I/O: it has issued no external call and begun no transaction, and its
\* validation step returns InvalidInput leaving both stores as they were.
C8_InvalidDoesNoIo ==
  /\ [](\A p \in Procs :
          (call[p].op \in MemberOps /\ ~Valid(call[p]))
            => /\ pc[p] \in {"validate", "done"}
               /\ log[p] = <<>>
               /\ tx[p] = NoTx
               /\ pc[p] = "done" => result[p] = "InvalidInput")
  /\ [][\A p \in Procs :
          (pc[p] = "validate" /\ ~Valid(call[p]) /\ pc'[p] # pc[p])
            => /\ pc'[p] = "done"
               /\ result'[p] = "InvalidInput"
               /\ members' = members
               /\ policy' = policy]_vars

C8_Witness ==
  \E p \in Procs :
    /\ Done(p, "upsert")
    /\ ~Valid(call[p])
    /\ result[p] = "InvalidInput"
    /\ log[p] = <<>>

\* C9: a create_collab_member whose insert and policy update succeeded and
\* whose commit failed returns an error, and right after it the pair has no
\* membership record while the policy store holds the entry the call wrote.
C9_CommitFailureLeavesPolicy ==
  (/\ Done(Client, "create")
   /\ log[Client] = <<<<"begin", TRUE>>, <<"exists", TRUE>>, <<"insert", TRUE>>,
                      <<"policy_update", TRUE>>, <<"commit", FALSE>>>>)
  => LET u == call[Client].uid
         o == call[Client].oid
     IN /\ result[Client] = "CommitError"
        /\ Rows(members, u, o) = {}
        /\ Rows(policy, u, o) = {Member(u, o, call[Client].level)}

C9_Witness ==
  /\ Done(Client, "create")
  /\ result[Client] = "CommitError"
  /\ Rows(members, 1, "o1") = {}
  /\ Rows(policy, 1, "o1") = {Member(1, "o1", "Write")}
  /\ Was(last, "none", "none")

\* C10: get_user_workspace_structure with depth > 10 returns InvalidRequest
\* having issued no fetch and no decode; the folder view is only ever built
\* with a depth in 0..10; and with depth <= 10 the fetch is issued.
C10_DepthLimit ==
  /\ (spc = "done" /\ sdepth > depth_limit)
       => sresult = "InvalidRequest" /\ slog = <<>> /\ sview = -1
  /\ \A i \in 1..Len(slog) :
       slog[i][1] = "folder_view" => slog[i][2] \in 0..depth_limit
  /\ (spc = "done" /\ sdepth <= depth_limit)
       => Len(slog) >= 1 /\ slog[1][1] = "fetch"

C10_Witness ==
  /\ spc = "done"
  /\ sdepth = depth_limit + 1
  /\ sresult = "InvalidRequest"
  /\ slog = <<>>

\* C11: get_published_view issues its steps in the order resolve, fetch,
\* decode, select published ids, outline; a step is issued only after all
\* earlier ones succeeded; once a step has failed the call has returned an
\* error with no view; and it returns Ok with a view only after all five
\* succeeded.
PubOrder == <<"resolve", "fetch", "decode", "select_ids", "outline">>

C11_PublishedViewAborts ==
  /\ Len(plog) <= Len(PubOrder)
  /\ \A i \in 1..Len(plog) : plog[i][1] = PubOrder[i]
  /\ \A i \in 1..(Len(plog) - 1) : plog[i][2]
  /\ ~AllOk(plog) => (ppc = "done" /\ presult # "Ok" /\ pview = {})
  /\ (ppc = "done" /\ presult = "Ok") => (Len(plog) = Len(PubOrder) /\ AllOk(plog))
  /\ pview # {} => (ppc = "done" /\ presult = "Ok")

C11_Witness ==
  /\ ppc = "done"
  /\ plog = <<<<"resolve", TRUE>>, <<"fetch", TRUE>>, <<"decode", FALSE>>>>
  /\ presult = "Unhandled"
  /\ pview = {}

TxOps == {"create", "upsert", "delete"}

\* C12: a create, upsert or delete that has returned has no open
\* transaction: it is committed if the call returned Ok, rolled back if the
\* call returned an error after begin succeeded, and was never begun
\* otherwise.
C12_NoOpenTransactionAtReturn ==
  \A p \in Procs :
    (pc[p] = "done" /\ call[p].op \in TxOps)
      => /\ tx[p].status \in {"none", "committed", "rolledback"}
         /\ tx[p].status = "committed" <=> result[p] = "Ok"
         /\ tx[p].status = "none" <=> ~(\E i \in 1..Len(log[p]) : log[p][i] = <<"begin", TRUE>>)

C12_Witness ==
  \E p \in Procs :
    /\ Done(p, "delete")
    /\ result[p] = "PolicyError"
    /\ log[p] = <<<<"begin", TRUE>>, <<"delete", TRUE>>, <<"policy_remove", FALSE>>>>
    /\ tx[p].status = "rolledback"

\* C13 as stated: a create that returns RecordAlreadyExists has begun and
\* used no transaction.
C13_ExistsErrorWithoutTransaction ==
  \A p \in Procs :
    (Done(p, "create") /\ result[p] = "RecordAlreadyExists")
      => tx[p].status = "none" /\ ~Issued(log[p], "begin")

\* C13 as amended: a validation error is returned with no transaction begun;
\* a create that returns RecordAlreadyExists has begun its transaction, used
\* it for the existence check alone, and left it rolled back.
C13_ExistsErrorAfterBegin ==
  \A p \in Procs :
    /\ (pc[p] = "done" /\ result[p] = "InvalidInput")
         => tx[p] = NoTx /\ log[p] = <<>>
    /\ (Done(p, "create") /\ result[p] = "RecordAlreadyExists")
         => /\ log[p] = <<<<"begin", TRUE>>, <<"exists", TRUE>>>>
            /\ tx[p] = [status |-> "rolledback", writes |-> <<>>]

C13_Witness ==
  \E p \in Procs :
    /\ Done(p, "create")
    /\ result[p] = "RecordAlreadyExists"
    /\ log[p] = <<<<"begin", TRUE>>, <<"exists", TRUE>>>>
    /\ tx[p].status = "rolledback"

CallNames(l) == {l[i][1] : i \in 1..Len(l)}

\* C14: within one call of a member operation every external call is issued
\* at most once; once one has failed the operation has returned an error;
\* and the operation returns Ok only if every call it issued succeeded.
C14_NoRetryNoSwallow ==
  \A p \in Procs :
    /\ Cardinality(CallNames(log[p])) = Len(log[p])
    /\ ~AllOk(log[p]) => (pc[p] = "done" /\ result[p] # "Ok")
    /\ (pc[p] = "done" /\ result[p] = "Ok") => AllOk(log[p])

C14_Witness ==
  \E p \in Procs :
    /\ Done(p, "upsert")
    /\ log[p] = <<<<"begin", TRUE>>, <<"policy_update", TRUE>>, <<"insert", FALSE>>>>
    /\ result[p] = "DbError"

CreateOrder == <<"begin", "exists", "insert", "policy_update", "commit">>

\* C15: a create issues begin, existence check, insert, policy update and
\* commit in that order, each only after all earlier ones succeeded, and the
\* insert only when the record was not found; so a create that fails at the
\* existence check or the insert has made no policy call, and a create that
\* returns Ok has issued all five successfully.
C15_CreateOrder ==
  /\ [](\A p \in Procs :
          call[p].op = "create"
            => /\ Len(log[p]) <= Len(CreateOrder)
               /\ \A i \in 1..Len(log[p]) : log[p][i][1] = CreateOrder[i]
               /\ \A i \in 1..(Len(log[p]) - 1) : log[p][i][2]
               /\ result[p] = "RecordAlreadyExists" => ~Issued(log[p], "insert")
               /\ (pc[p] = "done" /\ result[p] = "Ok")
                    => (Len(log[p]) = Len(CreateOrder) /\ AllOk(log[p])))
  /\ [][\A p \in Procs :
          (pc[p] = "create_exists" /\ pc'[p] = "create_insert")
            => Rows(members, call[p].uid, call[p].oid) = {}]_vars

C15_Witness ==
  \E p \in Procs :
    /\ Done(p, "create")
    /\ log[p] = <<<<"begin", TRUE>>, <<"exists", TRUE>>, <<"insert", FALSE>>>>
    /\ result[p] = "DbError"
    /\ Rows(policy, call[p].uid, call[p].oid) = {}

UpsertOrder == <<"begin", "policy_update", "insert", "commit">>

\* an upsert that returned after its policy update succeeded and its insert
\* or its commit failed
UpsertFailedAfterPolicy(p) ==
  /\ Done(p, "upsert")
  /\ log[p] \in {<<<<"begin", TRUE>>, <<"policy_update", TRUE>>, <<"insert", FALSE>>>>,
                 <<<<"begin", TRUE>>, <<"policy_update", TRUE>>, <<"insert", TRUE>>,
                   <<"commit", FALSE>>>>}

\* C16 as stated: after an upsert whose insert or commit failed, the policy
\* store and the member store differ for the pair.
C16_FailedUpsertDiverges ==
  UpsertFailedAfterPolicy(Client)
    => Rows(policy, call[Client].uid, call[Client].oid)
         # Rows(members, call[Client].uid, call[Client].oid)

\* C16 as amended: an upsert issues its policy update before its insert; if
\* the insert or the commit then fails it returns an error, no step of it has
\* changed the member store, and the policy store holds the new level, so the
\* two stores differ for the pair unless the member store already held the
\* record with that level.
C16_FailedUpsertKeepsPolicy ==
  /\ [](/\ call[Client].op = "upsert"
          => /\ Len(log[Client]) <= Len(UpsertOrder)
             /\ \A i \in 1..Len(log[Client]) : log[Client][i][1] = UpsertOrder[i]
        /\ UpsertFailedAfterPolicy(Client)
          => LET u == call[Client].uid
                 o == call[Client].oid
                 new == Member(u, o, call[Client].level)
             IN /\ result[Client] \in {"DbError", "CommitError"}
                /\ Rows(policy, u, o) = {new}
                /\ Rows(policy, u, o) = Rows(members, u, o)
                     <=> Rows(members, u, o) = {new})
  /\ [][(call[Client].op = "upsert" /\ pc'[Client] # pc[Client]
          /\ pc[Client] \notin {"idle", "done"}
          /\ ~(pc'[Client] = "done" /\ result'[Client] = "Ok"))
         => members' = members]_vars

C16_Witness ==
  /\ UpsertFailedAfterPolicy(Client)
  /\ result[Client] = "CommitError"
  /\ Rows(members, 1, "o1") = {Member(1, "o1", "Read")}
  /\ Rows(policy, 1, "o1") = {Member(1, "o1", "Write")}

\* C17: when an upsert and a delete for the same pair are made by two
\* callers and every external call of both succeeds, then after both have
\* returned the policy store holds an entry for the pair exactly when the
\* member store holds a record for it, with the same level.
C17_UpsertDeleteRaceAgrees ==
  \A p \in Procs : \A q \in Procs \ {p} :
    (/\ Done(p, "upsert") /\ Done(q, "delete")
     /\ Valid(call[p]) /\ SamePair(call[p], call[q])
     /\ AllOk(log[p]) /\ AllOk(log[q]))
    => Rows(policy, call[p].uid, call[p].oid) = Rows(members, call[p].uid, call[p].oid)

\* C18: get and list begin no transaction and issue nothing but their one
\* select; their step leaves both stores as they were; a get whose select
\* succeeds returns RecordNotFound and no record when the pair has no row,
\* and the pair's row otherwise; a list whose select succeeds returns
\* exactly the rows with the object id asked for.
C18_ReadsAreReadOnly ==
  /\ [](\A p \in Procs :
          /\ call[p].op = "get"
               => tx[p] = NoTx /\ CallNames(log[p]) \subseteq {"select"} /\ Len(log[p]) <= 1
          /\ call[p].op = "list"
               => tx[p] = NoTx /\ CallNames(log[p]) \subseteq {"select_list"} /\ Len(log[p]) <= 1)
  /\ [][\A p \in Procs :
          (call[p].op \in {"get", "list"} /\ pc[p] \notin {"idle", "done"} /\ pc'[p] # pc[p])
            => /\ members' = members
               /\ policy' = policy
               /\ (call[p].op = "get" /\ pc'[p] = "done" /\ AllOk(log'[p]) /\ Valid(call[p]))
                    => LET rows == {r \in members :
                                      r.uid = call[p].uid /\ r.oid = call[p].oid}
                       IN IF rows = {}
                            THEN result'[p] = "RecordNotFound" /\ ret'[p] = {}
                            ELSE result'[p] = "Ok" /\ ret'[p] = rows
               /\ (call[p].op = "list" /\ pc'[p] = "done" /\ AllOk(log'[p]) /\ Valid(call[p]))
                    => /\ result'[p] = "Ok"
                       /\ ret'[p] = {r \in members : r.oid = call[p].oid}]_vars

C18_Witness ==
  \E p \in Procs :
    /\ Done(p, "list")
    /\ call[p].oid = "o1"
    /\ result[p] = "Ok"
    /\ ret[p] = {Member(1, "o1", "Write")}
    /\ members = {Member(1, "o1", "Write"), Member(1, "o2", "Read")}

\* C19: an upsert issues no existence check and never returns
\* RecordAlreadyExists or RecordNotFound; made with valid parameters for a
\* pair, with or without a record, and with all its calls succeeding, it
\* returns Ok and both stores hold the pair with the level given.
C19_UpsertWithoutRecord ==
  Done(Client, "upsert")
    => LET u == call[Client].uid
           o == call[Client].oid
           new == Member(u, o, call[Client].level)
       IN /\ ~Issued(log[Client], "exists")
          /\ result[Client] \notin {"RecordAlreadyExists", "RecordNotFound"}
          /\ (Valid(call[Client]) /\ AllOk(log[Client]))
               => /\ result[Client] = "Ok"
                  /\ Rows(members, u, o) = {new}
                  /\ Rows(policy, u, o) = {new}

C19_Witness ==
  /\ Done(Client, "upsert")
  /\ Was(last, "get", "RecordNotFound")
  /\ SamePair(last.call, call[Client])
  /\ result[Client] = "Ok"
  /\ Rows(members, 1, "o1") = {Member(1, "o1", "Write")}
  /\ Rows(policy, 1, "o1") = {Member(1, "o1", "Write")}

====
